---- MODULE Spec2Model ----
(***************************************************************************)
(* A model of src/mindlessgen/molecules/generate_molecule.py:              *)
(*   generate_atom_list   - the composition sampler                        *)
(*   generate_coordinates - the geometry sampler                           *)
(*   generate_random_molecule - the assembler that calls both              *)
(* Random draws are nondeterministic choices.  Floating point values are   *)
(* modelled by exact rationals <<numerator, denominator>>.                 *)
(***************************************************************************)
EXTENDS Integers, Sequences, FiniteSets, TLC

VARIABLES
    cfg,            \* the GenerateConfig the call was given
    pc,             \* position in the running function
    natoms,         \* generate_atom_list: the composition vector
    numatoms_all,   \* generate_atom_list: number of addition rounds
    k,              \* iteration counter of the running for-loop
    nmetals,        \* generate_atom_list: tracked alkali/alkaline-earth sum
    n_othermetals,  \* generate_atom_list: tracked d-metal/lanthanide sum
    gi,             \* position of the running scan in the metal group list
    acted,          \* history: the steps that changed the vector so far
    at,             \* generate_coordinates: the composition vector given
    xyz,            \* generate_coordinates: scaled coordinates
    ati,            \* generate_coordinates: element index per atom
    eff_scaling,    \* generate_coordinates: the effective scale
    ndraw,          \* number of generate_random_coordinates calls so far
    nfail,          \* number of failed check_distances calls so far
    mol             \* generate_random_molecule: the Molecule being filled

vars == <<cfg, pc, natoms, numatoms_all, k, nmetals, n_othermetals, gi, acted,
          at, xyz, ati, eff_scaling, ndraw, nfail, mol>>

atomvars == <<natoms, numatoms_all, k, nmetals, n_othermetals, gi, acted>>
geomvars == <<at, xyz, ati, eff_scaling, ndraw, nfail>>

(***************************************************************************)
(* Bounds of the model.                                                    *)
(***************************************************************************)
\* numatoms_all is drawn from 1..6; the model explores 1..MaxRounds of them
MaxRounds == 3
\* random element choices are explored on the first NumPool entries of PoolOrder
NumPool == 4
\* np.random.rand() is explored at i/RandRes (i < RandRes) and at its supremum
RandRes == 2
\* min_num_atoms and max_num_atoms range over 1..MaxNumAtoms
MaxNumAtoms == 3
\* generate_coordinates is given composition vectors of at most MaxAtomsGeom atoms
MaxAtomsGeom == 3
\* the rejection loop of generate_coordinates is followed for MaxRejects rounds
MaxRejects == 2
\* under fair draws generate_coordinates is given at most MaxAtomsFair atoms
MaxAtomsFair == 2
\* generate_random_molecule is run with max_num_atoms <= MaxAtomsMol
MaxAtomsMol == 2

(***************************************************************************)
(* Program constants.                                                      *)
(***************************************************************************)
MAX_ELEM == 86
NumSlots == 102
MaxRoundDraw == 6
MaxAddDraw == 2
MetalLimit == 3
PBlockRounds == 5
PBlockLo == 4
PBlockHi == 9
MaxMinNat == 10

Elems == 0 .. (NumSlots - 1)

Min(a, b) == IF a < b THEN a ELSE b

\* Python's None for an optional bound; Some(v) is a given bound
None == {}
Some(v) == {v}

(***************************************************************************)
(* Element classifier tables.                                              *)
(***************************************************************************)
get_alkali_metals == <<2, 10, 18, 36, 54>>
get_alkaline_earth_metals == <<3, 11, 19, 37, 55>>

RECURSIVE Interval(_, _)
Interval(a, b) == IF a >= b THEN << >> ELSE <<a>> \o Interval(a + 1, b)

get_three_d_metals == Interval(20, 30)
get_four_d_metals == Interval(38, 48)
get_five_d_metals == Interval(71, 80)
get_lanthanides == Interval(56, 71)

group_one_two == get_alkali_metals \o get_alkaline_earth_metals
other_metals ==
    get_three_d_metals \o get_four_d_metals \o get_five_d_metals \o get_lanthanides

(***************************************************************************)
(* Sums.                                                                   *)
(***************************************************************************)
\* the sum of f[lo], ..., f[hi], taken by halves
RECURSIVE SumRange(_, _, _)
SumRange(f, lo, hi) ==
    IF lo = hi
    THEN f[lo]
    ELSE LET mid == (lo + hi) \div 2
         IN  SumRange(f, lo, mid) + SumRange(f, mid + 1, hi)

\* np.sum(natoms)
Total(f) == SumRange(f, 0, NumSlots - 1)

RECURSIVE SumList(_, _, _)
SumList(f, s, n) == IF n = 0 THEN 0 ELSE f[s[n]] + SumList(f, s, n - 1)

\* for i in group: n += natoms[i]
GroupSum(f, s) == SumList(f, s, Len(s))

ZeroVec == [e \in Elems |-> 0]

(***************************************************************************)
(* Configuration.                                                          *)
(***************************************************************************)
PoolOrder == <<0, 5, 2, 20, 3, 4, 38, 30>>
Pool == {PoolOrder[i] : i \in 1 .. Min(NumPool, Len(PoolOrder))}

\* set_all_elem with and without the forbidden elements taken out
valid_elems_unfiltered == 0 .. (MAX_ELEM - 1)
valid_elems ==
    IF cfg.forbidden_elements # {}
    THEN (0 .. (MAX_ELEM - 1)) \ cfg.forbidden_elements
    ELSE 0 .. (MAX_ELEM - 1)

\* cfg.element_composition.get(e, (None, None))
Limits(e) ==
    IF e \in DOMAIN cfg.element_composition
    THEN cfg.element_composition[e]
    ELSE <<None, None>>

\* the (forbidden_elements, element_composition) pairs explored
CompositionChoices ==
    { <<{}, << >> >>,
      <<{}, (0 :> <<Some(2), Some(2)>>)>>,
      <<{}, (0 :> <<Some(1), None>>) @@ (5 :> <<Some(0), Some(3)>>)>>,
      <<{0, 5}, << >> >>,
      <<{0, 5}, (5 :> <<Some(1), None>>) @@ (90 :> <<Some(1), Some(1)>>)
                  @@ (95 :> <<None, Some(2)>>)>>,
      <<1 .. (MAX_ELEM - 1), (0 :> <<None, Some(1)>>)>>,
      <<0 .. (MAX_ELEM - 1), << >> >>,
      <<0 .. (MAX_ELEM - 1), (0 :> <<Some(2), Some(2)>>)>> }

\* the (min_num_atoms, max_num_atoms) pairs explored
NumAtomsChoices ==
    {p \in (1 .. MaxNumAtoms) \X (1 .. MaxNumAtoms) :
        p[1] - p[2] <= 1 /\ p[2] - p[1] <= 1}

\* the geometry options, not read by generate_atom_list
DefaultScaling == <<3, 1>>
DefaultThreshold == <<6, 5>>
DefaultFactor == <<13, 10>>

AtomConfigs ==
    { [forbidden_elements |-> c[1], element_composition |-> c[2],
       min_num_atoms |-> n[1], max_num_atoms |-> n[2],
       init_coord_scaling |-> DefaultScaling,
       dist_threshold |-> DefaultThreshold,
       increase_scaling_factor |-> DefaultFactor] :
      c \in CompositionChoices, n \in NumAtomsChoices }

\* mol = Molecule(): no attribute is set
EmptyMol ==
    [atlist |-> None, num_atoms |-> None, xyz |-> None, ati |-> None,
     charge |-> None]

(***************************************************************************)
(* generate_atom_list                                                      *)
(***************************************************************************)
\* the history after a step named step took the vector from f to g
Acted(step, f, g) == IF f # g THEN acted \cup {step} ELSE acted

InitAtoms ==
    /\ cfg \in AtomConfigs
    /\ pc = "start"
    /\ natoms = ZeroVec
    /\ numatoms_all = 0
    /\ k = 0
    /\ nmetals = 0
    /\ n_othermetals = 0
    /\ gi = 1
    /\ acted = {}
    /\ at = ZeroVec
    /\ xyz = << >>
    /\ ati = << >>
    /\ eff_scaling = cfg.init_coord_scaling
    /\ ndraw = 0
    /\ nfail = 0
    /\ mol = EmptyMol

\* numatoms_all = np.random.randint(1, 7)
ChooseNumAtoms ==
    /\ pc = "start"
    /\ \E n \in 1 .. Min(MaxRoundDraw, MaxRounds) : numatoms_all' = n
    /\ k' = 0
    /\ pc' = "add"
    /\ UNCHANGED <<cfg, natoms, nmetals, n_othermetals, gi, acted>>
    /\ UNCHANGED geomvars
    /\ UNCHANGED mol

\* np.random.choice(list(valid_elems)) raises on an empty list
ChoiceFails == valid_elems = {}

\* the values of np.random.choice(list(valid_elems)) the model explores, and
\* the same for a set_all_elem that ends one index later
ChoiceDrawsOffByOne == (valid_elems \cap Pool) \cup {MAX_ELEM}
ChoiceDraws == valid_elems \cap Pool

\* one round of "for _ in range(numatoms_all)"; after the last round the
\* sum over group_one_two is taken
AddAtom ==
    /\ pc = "add"
    /\ k < numatoms_all
    /\ IF ChoiceFails
       THEN /\ pc' = "error"
            /\ UNCHANGED <<natoms, numatoms_all, k, nmetals>>
       ELSE \E a \in ChoiceDraws, inc \in 0 .. MaxAddDraw :
              /\ natoms' = [natoms EXCEPT ![a] = @ + inc]
              /\ IF k + 1 = numatoms_all
                 THEN /\ pc' = "limit1"
                      /\ k' = 0
                      /\ numatoms_all' = 0
                      /\ nmetals' = GroupSum(natoms', group_one_two)
                 ELSE /\ pc' = "add"
                      /\ k' = k + 1
                      /\ UNCHANGED <<numatoms_all, nmetals>>
    /\ UNCHANGED <<cfg, n_othermetals, gi, acted>>
    /\ UNCHANGED geomvars
    /\ UNCHANGED mol

\* one step of the scan "for i in group" inside "while n > 3": the new
\* vector, the new tracked sum and the next scan position (ScanSumAlways:
\* the tracked sum with its decrement outside the "if natoms[i] > 0")
ScanSumAlways(f, s, g, n) == n - 1
ScanCountAlways(f, s, g) == [f EXCEPT ![s[g]] = @ - 1]
ScanCount(f, s, g) == IF f[s[g]] > 0 THEN [f EXCEPT ![s[g]] = @ - 1] ELSE f
ScanSum(f, s, g, n) == IF f[s[g]] > 0 THEN n - 1 ELSE n
ScanNext(s, g, n) == IF n <= MetalLimit \/ g = Len(s) THEN 1 ELSE g + 1

LimitGroupOneTwo ==
    /\ pc = "limit1"
    /\ nmetals > MetalLimit
    /\ natoms' = ScanCount(natoms, group_one_two, gi)
    /\ nmetals' = ScanSum(natoms, group_one_two, gi, nmetals)
    /\ gi' = ScanNext(group_one_two, gi, nmetals')
    /\ UNCHANGED <<cfg, pc, numatoms_all, k, n_othermetals>>
    /\ acted' = Acted("limit1", natoms, natoms')
    /\ UNCHANGED geomvars
    /\ UNCHANGED mol

\* the first while loop is left; the sum over other_metals is taken
EndGroupOneTwo ==
    /\ pc = "limit1"
    /\ ~(nmetals > MetalLimit)
    /\ n_othermetals' = GroupSum(natoms, other_metals)
    /\ gi' = 1
    /\ pc' = "limit2"
    /\ UNCHANGED <<cfg, natoms, numatoms_all, k, nmetals, acted>>
    /\ UNCHANGED geomvars
    /\ UNCHANGED mol

LimitOtherMetals ==
    /\ pc = "limit2"
    /\ n_othermetals > MetalLimit
    /\ natoms' = ScanCount(natoms, other_metals, gi)
    /\ n_othermetals' = ScanSum(natoms, other_metals, gi, n_othermetals)
    /\ gi' = ScanNext(other_metals, gi, n_othermetals')
    /\ UNCHANGED <<cfg, pc, numatoms_all, k, nmetals>>
    /\ acted' = Acted("limit2", natoms, natoms')
    /\ UNCHANGED geomvars
    /\ UNCHANGED mol

\* the second while loop is left; the locals of the passes are not read again
EndOtherMetals ==
    /\ pc = "limit2"
    /\ ~(n_othermetals > MetalLimit)
    /\ k' = 0
    /\ gi' = 1
    /\ nmetals' = 0
    /\ n_othermetals' = 0
    /\ pc' = "pblock"
    /\ UNCHANGED <<cfg, natoms, numatoms_all, acted>>
    /\ UNCHANGED geomvars
    /\ UNCHANGED mol

\* the values of np.random.randint(4, 10) the model explores
PBlockDraws == (PBlockLo .. PBlockHi) \cap Pool

\* one round of "for _ in range(5)"
PBlockBoost ==
    /\ pc = "pblock"
    /\ k < PBlockRounds
    /\ \E i \in PBlockDraws, inc \in 0 .. MaxAddDraw :
         natoms' = [natoms EXCEPT ![i] = @ + inc]
    /\ IF k + 1 = PBlockRounds
       THEN pc' = "backfill" /\ k' = 0
       ELSE pc' = "pblock" /\ k' = k + 1
    /\ UNCHANGED <<cfg, numatoms_all, nmetals, n_othermetals, gi, acted>>
    /\ UNCHANGED geomvars
    /\ UNCHANGED mol

\* int(randint * minnat * 1.2) for randint = i / RandRes
HydrogenAt(i, minnat) == (i * minnat * 12) \div (10 * RandRes)
\* the largest value of int(randint * minnat * 1.2) over randint < 1
HydrogenSup(minnat) == IF minnat = 0 THEN 0 ELSE (12 * minnat - 1) \div 10
\* the values of j = 1 + int(randint * minnat * 1.2) the model explores, and
\* the same without the "1 +"
HydrogenDrawsFromZero(minnat) ==
    {HydrogenAt(i, minnat) : i \in 0 .. (RandRes - 1)} \cup {HydrogenSup(minnat)}
HydrogenDraws(minnat) ==
    {1 + HydrogenAt(i, minnat) : i \in 0 .. (RandRes - 1)}
        \cup {1 + HydrogenSup(minnat)}

\* if natoms[0] == 0: ... natoms[0] = natoms[0] + j
HydrogenBackfill ==
    /\ pc = "backfill"
    /\ IF natoms[0] = 0
       THEN \E j \in HydrogenDraws(Min(Total(natoms), MaxMinNat)) :
              natoms' = [natoms EXCEPT ![0] = @ + j]
       ELSE UNCHANGED natoms
    /\ acted' = Acted("backfill", natoms, natoms')
    /\ pc' = "clamp"
    /\ UNCHANGED <<cfg, numatoms_all, k, nmetals, n_othermetals, gi>>
    /\ UNCHANGED geomvars
    /\ UNCHANGED mol

\* the if/elif of the loop over cfg.element_composition.items()
Clamp(n, range) ==
    IF \E mn \in range[1] : n < mn
    THEN CHOOSE mn \in range[1] : TRUE
    ELSE IF \E mx \in range[2] : n > mx
         THEN CHOOSE mx \in range[2] : TRUE
         ELSE n

AlignComposition ==
    /\ pc = "clamp"
    /\ natoms' = [e \in Elems |->
                    IF e \in DOMAIN cfg.element_composition
                    THEN Clamp(natoms[e], cfg.element_composition[e])
                    ELSE natoms[e]]
    /\ acted' = Acted("clamp", natoms, natoms')
    /\ pc' = "grow"
    /\ UNCHANGED <<cfg, numatoms_all, k, nmetals, n_othermetals, gi>>
    /\ UNCHANGED geomvars
    /\ UNCHANGED mol

\* "max_limit is not None and natoms[ati] >= max_limit", and the same with
\* "is None or" for "is not None and"
AtMaxLimitOrNone(n, maxlimit) == maxlimit = None \/ \E mx \in maxlimit : n >= mx
AtMaxLimit(n, maxlimit) == \E mx \in maxlimit : n >= mx

\* "np.sum(natoms) < cfg.min_num_atoms", and the same with "<=" for "<"
BelowOrAtMinimum(f) == Total(f) <= cfg.min_num_atoms
BelowMinimum(f) == Total(f) < cfg.min_num_atoms

\* one iteration of "while np.sum(natoms) < cfg.min_num_atoms"
Grow ==
    /\ pc = "grow"
    /\ BelowMinimum(natoms)
    /\ IF ChoiceFails
       THEN pc' = "error" /\ UNCHANGED natoms
       ELSE /\ \E a \in ChoiceDraws :
                 IF AtMaxLimit(natoms[a], Limits(a)[2])
                 THEN UNCHANGED natoms
                 ELSE natoms' = [natoms EXCEPT ![a] = @ + 1]
            /\ pc' = "grow"
    /\ UNCHANGED <<cfg, numatoms_all, k, nmetals, n_othermetals, gi>>
    /\ acted' = Acted("grow", natoms, natoms')
    /\ UNCHANGED geomvars
    /\ UNCHANGED mol

EndGrow ==
    /\ pc = "grow"
    /\ ~BelowMinimum(natoms)
    /\ pc' = "shrink"
    /\ UNCHANGED <<cfg>>
    /\ UNCHANGED atomvars
    /\ UNCHANGED geomvars
    /\ UNCHANGED mol

\* "natoms[i] > 0" and "min_limit is not None and natoms[i] > min_limit",
\* and the same without the comparison with min_limit
RemovableBelowMin(n, minlimit) == n > 0 /\ minlimit # None
Removable(n, minlimit) == n > 0 /\ \E mn \in minlimit : n > mn

\* "np.sum(natoms) > cfg.max_num_atoms", and the same with ">=" for ">"
AboveOrAtMaximum(f) == Total(f) >= cfg.max_num_atoms
AboveMaximum(f) == Total(f) > cfg.max_num_atoms

\* the values of np.random.randint(0, MAX_ELEM) the model explores: every
\* index that can hold a count, and the last index of the range
ShrinkDraws ==
    (0 .. (MAX_ELEM - 1))
        \cap (Pool \cup DOMAIN cfg.element_composition \cup {MAX_ELEM - 1})

\* one iteration of "while np.sum(natoms) > cfg.max_num_atoms"
Shrink ==
    /\ pc = "shrink"
    /\ AboveMaximum(natoms)
    /\ \E i \in ShrinkDraws :
         IF Removable(natoms[i], Limits(i)[1])
         THEN natoms' = [natoms EXCEPT ![i] = @ - 1]
         ELSE UNCHANGED natoms
    /\ UNCHANGED <<cfg, pc, numatoms_all, k, nmetals, n_othermetals, gi>>
    /\ acted' = Acted("shrink", natoms, natoms')
    /\ UNCHANGED geomvars
    /\ UNCHANGED mol

\* return natoms
ReturnAtoms ==
    /\ pc = "shrink"
    /\ ~AboveMaximum(natoms)
    /\ pc' = "done"
    /\ UNCHANGED <<cfg>>
    /\ UNCHANGED atomvars
    /\ UNCHANGED geomvars
    /\ UNCHANGED mol

NextAtoms ==
    \/ ChooseNumAtoms
    \/ AddAtom
    \/ LimitGroupOneTwo
    \/ EndGroupOneTwo
    \/ LimitOtherMetals
    \/ EndOtherMetals
    \/ PBlockBoost
    \/ HydrogenBackfill
    \/ AlignComposition
    \/ Grow
    \/ EndGrow
    \/ Shrink
    \/ ReturnAtoms

Spec == InitAtoms /\ [][NextAtoms]_vars

\* the configurations in which the grow loop can have to add atoms
\* (1 < min_num_atoms <= max_num_atoms) and whose constraint map gives some
\* valid element a maximum
GrowConfigs ==
    {c \in AtomConfigs :
        /\ 1 < c.min_num_atoms
        /\ c.min_num_atoms <= c.max_num_atoms
        /\ \E e \in DOMAIN c.element_composition :
              /\ e < MAX_ELEM
              /\ e \notin c.forbidden_elements
              /\ c.element_composition[e][2] # None}

InitGrow == InitAtoms /\ cfg \in GrowConfigs

\* generate_atom_list under fair draws: an iteration of the grow loop that
\* changes the vector is taken if it stays possible, and a loop whose
\* condition is false is left
SpecGrowFair ==
    /\ InitGrow
    /\ [][NextAtoms]_vars
    /\ WF_vars(Grow)
    /\ WF_vars(EndGrow)

(***************************************************************************)
(* generate_random_coordinates                                             *)
(***************************************************************************)
\* raw coordinates are counted in units of 1 / RawUnit
RawUnit == 2

\* np.random.rand(3) * 3 - 1.5 lies in [-1.5, 1.5) and np.random.rand(3) * 2 - 1
\* in [-1, 1): the lower end and a value near the upper end of each axis
AxisLo(elem) == IF elem = 0 THEN -3 ELSE -2
AxisHi(elem) == IF elem = 0 THEN 2 ELSE 1

\* the draws of one atom's row the model explores: four corners of its cube,
\* no three of them in a line and no two on the same face diagonal
Points(elem) ==
    LET lo == AxisLo(elem)
        hi == AxisHi(elem)
    IN  {<<lo, lo, lo>>, <<lo, hi, hi>>, <<hi, lo, hi>>, <<hi, hi, lo>>}

\* "atilist.append(elem)" for m in range(count), and the same with the
\* append after the inner loop
RepeatOnce(elem, count) == [m \in 1 .. Min(count, 1) |-> elem]
Repeat(elem, count) == [m \in 1 .. count |-> elem]

\* atilist after the loop "for elem, count in enumerate(at)" reached elem
RECURSIVE ExpandRange(_, _, _)
ExpandRange(a, lo, hi) ==
    IF lo = hi
    THEN Repeat(lo, a[lo])
    ELSE LET mid == (lo + hi) \div 2
         IN  ExpandRange(a, lo, mid) \o ExpandRange(a, mid + 1, hi)

\* ati = np.array(atilist)
ExpandAti(a) == ExpandRange(a, 0, NumSlots - 1)

\* every raw coordinate array the draws can fill for the atoms of atilist
RECURSIVE CoordDraws(_)
CoordDraws(atilist) ==
    IF atilist = << >>
    THEN {<< >>}
    ELSE {<<p>> \o r : p \in Points(Head(atilist)), r \in CoordDraws(Tail(atilist))}

\* the (xyz, ati) pairs generate_random_coordinates(a) can return
generate_random_coordinates(a) ==
    LET atilist == ExpandAti(a)
    IN  {<<raw, atilist>> : raw \in CoordDraws(atilist)}

(***************************************************************************)
(* check_distances, on coordinates pts[i] / den                            *)
(***************************************************************************)
Sq(x) == x * x

\* the square of np.linalg.norm(xyz[i, :] - xyz[j, :]), times den * den
Dist2(p, q) == Sq(p[1] - q[1]) + Sq(p[2] - q[2]) + Sq(p[3] - q[3])

\* r < threshold, for a threshold >= 0, and the same with "<=" for "<"
TooCloseOrEqual(d2, den, threshold) ==
    d2 * Sq(threshold[2]) <= Sq(threshold[1]) * Sq(den)
TooClose(d2, den, threshold) == d2 * Sq(threshold[2]) < Sq(threshold[1]) * Sq(den)

\* check_distances with "return True" inside the outer loop
check_distances_first_row(x, threshold) ==
    \A i \in 1 .. Min(1, Len(x.pts) - 1) :
        \A j \in (i + 1) .. Len(x.pts) :
            ~TooClose(Dist2(x.pts[i], x.pts[j]), x.den, threshold)

check_distances(x, threshold) ==
    \A i \in 1 .. (Len(x.pts) - 1) :
        \A j \in (i + 1) .. Len(x.pts) :
            ~TooClose(Dist2(x.pts[i], x.pts[j]), x.den, threshold)

(***************************************************************************)
(* generate_coordinates                                                    *)
(***************************************************************************)
\* xyz = xyz * eff_scaling
ScaleBy(raw, scale) ==
    [pts |-> [i \in 1 .. Len(raw) |->
                <<raw[i][1] * scale[1], raw[i][2] * scale[1], raw[i][3] * scale[1]>>],
     den |-> RawUnit * scale[2]]

\* eff_scaling = eff_scaling * inc_scaling_factor, and the same with "+" and
\* with "/"
IncreaseScalingByAdding(scale, factor) ==
    <<scale[1] * factor[2] + factor[1] * scale[2], scale[2] * factor[2]>>
IncreaseScalingByDividing(scale, factor) ==
    <<scale[1] * factor[2], scale[2] * factor[1]>>
IncreaseScaling(scale, factor) == <<scale[1] * factor[1], scale[2] * factor[2]>>

\* the composition vectors given: hydrogens (index 0) and carbons (index 5)
GeomInputs ==
    {[e \in Elems |-> IF e = 0 THEN c[1] ELSE IF e = 5 THEN c[2] ELSE 0] :
        c \in {d \in (0 .. MaxAtomsGeom) \X (0 .. MaxAtomsGeom) :
                  d[1] + d[2] <= MaxAtomsGeom}}

GeomConfigs ==
    { [forbidden_elements |-> {}, element_composition |-> << >>,
       min_num_atoms |-> 1, max_num_atoms |-> MaxNumAtoms,
       init_coord_scaling |-> s,
       dist_threshold |-> t,
       increase_scaling_factor |-> f] :
      s \in {<<1, 1>>, <<3, 1>>},
      t \in {<<0, 1>>, <<1, 1>>, <<3, 2>>},
      f \in {<<2, 1>>, <<3, 2>>} }

InitGeom ==
    /\ cfg \in GeomConfigs
    /\ pc = "coords"
    /\ natoms = ZeroVec
    /\ numatoms_all = 0
    /\ k = 0
    /\ nmetals = 0
    /\ n_othermetals = 0
    /\ gi = 1
    /\ acted = {}
    /\ at \in GeomInputs
    /\ xyz = ScaleBy(<< >>, cfg.init_coord_scaling)
    /\ ati = << >>
    /\ eff_scaling = cfg.init_coord_scaling
    /\ ndraw = 0
    /\ nfail = 0
    /\ mol = EmptyMol

\* eff_scaling = copy.deepcopy(scaling) and the first draw
FirstDraw ==
    /\ pc = "coords"
    /\ eff_scaling' = cfg.init_coord_scaling
    /\ \E d \in generate_random_coordinates(at) :
         /\ xyz' = ScaleBy(d[1], eff_scaling')
         /\ ati' = d[2]
    /\ ndraw' = ndraw + 1
    /\ pc' = "check"
    /\ UNCHANGED <<cfg, at, nfail>>
    /\ UNCHANGED atomvars
    /\ UNCHANGED mol

\* the body of "while not check_distances(xyz, dist_threshold)"
Redraw ==
    /\ pc = "check"
    /\ ~check_distances(xyz, cfg.dist_threshold)
    /\ nfail < MaxRejects
    /\ eff_scaling' = IncreaseScaling(eff_scaling, cfg.increase_scaling_factor)
    /\ \E d \in generate_random_coordinates(at) :
         /\ xyz' = ScaleBy(d[1], eff_scaling')
         /\ ati' = d[2]
    /\ ndraw' = ndraw + 1
    /\ nfail' = nfail + 1
    /\ UNCHANGED <<cfg, pc, at>>
    /\ UNCHANGED atomvars
    /\ UNCHANGED mol

\* return xyz, ati
ReturnCoordinates ==
    /\ pc = "check"
    /\ check_distances(xyz, cfg.dist_threshold)
    /\ pc' = "returned"
    /\ UNCHANGED <<cfg>>
    /\ UNCHANGED atomvars
    /\ UNCHANGED geomvars
    /\ UNCHANGED mol

NextGeom ==
    \/ FirstDraw
    \/ Redraw
    \/ ReturnCoordinates

SpecGeom == InitGeom /\ [][NextGeom]_vars

\* the inputs of the fair specification: initial scale 1, a positive
\* threshold, at most MaxAtomsFair atoms
InitGeomFair ==
    /\ InitGeom
    /\ cfg.init_coord_scaling = <<1, 1>>
    /\ cfg.dist_threshold[1] > 0
    /\ Total(at) <= MaxAtomsFair

\* the body of the loop after MaxRejects failed checks: the coordinates are
\* drawn again and the scale is kept, which is at most the scale of the code,
\* so that a draw that passes the check here passes it in the code
RedrawSaturated ==
    /\ pc = "check"
    /\ ~check_distances(xyz, cfg.dist_threshold)
    /\ nfail = MaxRejects
    /\ \E d \in generate_random_coordinates(at) :
         /\ xyz' = ScaleBy(d[1], eff_scaling)
         /\ ati' = d[2]
    /\ UNCHANGED <<cfg, pc, at, eff_scaling, ndraw, nfail>>
    /\ UNCHANGED atomvars
    /\ UNCHANGED mol

NextGeomFair ==
    \/ FirstDraw
    \/ Redraw
    \/ RedrawSaturated
    \/ ReturnCoordinates

\* the scale of the next iteration of the loop
NextScaling ==
    IF nfail < MaxRejects
    THEN IncreaseScaling(eff_scaling, cfg.increase_scaling_factor)
    ELSE eff_scaling

\* the check has failed and some draw of the next iteration passes it
PassingDrawPossible ==
    /\ pc = "check"
    /\ ~check_distances(xyz, cfg.dist_threshold)
    /\ \E d \in generate_random_coordinates(at) :
         check_distances(ScaleBy(d[1], NextScaling), cfg.dist_threshold)

\* "while not check_distances(xyz, dist_threshold)" is false
CheckPasses == pc = "check" /\ check_distances(xyz, cfg.dist_threshold)

\* generate_coordinates under fair draws: if again and again some draw of the
\* next iteration passes the check, a draw that passes it is made, and a loop
\* whose condition is false is left
SpecGeomFair ==
    /\ InitGeomFair
    /\ [][NextGeomFair]_vars
    /\ WF_vars(ReturnCoordinates)
    /\ ([]<>PassingDrawPossible => []<>CheckPasses)

(***************************************************************************)
(* generate_random_molecule                                                *)
(***************************************************************************)
\* the configurations generate_random_molecule is run with: a constraint map
\* with which generate_atom_list returns, and a set of forbidden elements
\* with which it fails; small geometry options
MolConfigs ==
    { [forbidden_elements |-> c[1], element_composition |-> c[2],
       min_num_atoms |-> n[1], max_num_atoms |-> n[2],
       init_coord_scaling |-> <<1, 1>>,
       dist_threshold |-> <<1, 1>>,
       increase_scaling_factor |-> <<2, 1>>] :
      c \in { <<{}, (0 :> <<Some(1), None>>) @@ (5 :> <<Some(0), Some(3)>>)>>,
              <<0 .. (MAX_ELEM - 1), << >> >> },
      n \in {p \in NumAtomsChoices : p[2] <= MaxAtomsMol} }

InitMol ==
    /\ cfg \in MolConfigs
    /\ pc = "start"
    /\ natoms = ZeroVec
    /\ numatoms_all = 0
    /\ k = 0
    /\ nmetals = 0
    /\ n_othermetals = 0
    /\ gi = 1
    /\ acted = {}
    /\ at = ZeroVec
    /\ xyz = << >>
    /\ ati = << >>
    /\ eff_scaling = cfg.init_coord_scaling
    /\ ndraw = 0
    /\ nfail = 0
    /\ mol = EmptyMol

\* np.sum(mol.atlist), and len(mol.atlist) in its place
NumAtomsAsLength(atlist) == NumSlots
NumAtomsOf(atlist) == Total(atlist)

\* mol.atlist = generate_atom_list(...) has returned; mol.num_atoms is set
\* and generate_coordinates is called with at = mol.atlist
CallCoordinates ==
    /\ pc = "done"
    /\ mol' = [mol EXCEPT !.atlist = Some(natoms),
                          !.num_atoms = Some(NumAtomsOf(natoms))]
    /\ at' = natoms
    /\ pc' = "coords"
    /\ UNCHANGED <<cfg, xyz, ati, eff_scaling, ndraw, nfail>>
    /\ UNCHANGED atomvars

\* mol.xyz, mol.ati = the pair generate_coordinates returned
StoreCoordinates ==
    /\ pc = "returned"
    /\ mol' = [mol EXCEPT !.xyz = Some(xyz), !.ati = Some(ati)]
    /\ pc' = "charge"
    /\ UNCHANGED <<cfg>>
    /\ UNCHANGED atomvars
    /\ UNCHANGED geomvars

\* the charges set_random_charge is taken to choose from
Charges == {-1, 0, 1}

\* mol.charge = set_random_charge(mol.ati, verbosity): the collaborator
\* returns a charge or raises
AssignCharge ==
    /\ pc = "charge"
    /\ \/ \E c \in Charges :
            /\ mol' = [mol EXCEPT !.charge = Some(c)]
            /\ pc' = "charged"
       \/ /\ pc' = "error"
          /\ UNCHANGED mol
    /\ UNCHANGED <<cfg>>
    /\ UNCHANGED atomvars
    /\ UNCHANGED geomvars

\* return mol
ReturnMolecule ==
    /\ pc = "charged"
    /\ pc' = "molecule"
    /\ UNCHANGED <<cfg, mol>>
    /\ UNCHANGED atomvars
    /\ UNCHANGED geomvars

NextMol ==
    \/ ChooseNumAtoms
    \/ AddAtom
    \/ LimitGroupOneTwo
    \/ EndGroupOneTwo
    \/ LimitOtherMetals
    \/ EndOtherMetals
    \/ PBlockBoost
    \/ HydrogenBackfill
    \/ AlignComposition
    \/ Grow
    \/ EndGrow
    \/ Shrink
    \/ ReturnAtoms
    \/ CallCoordinates
    \/ FirstDraw
    \/ Redraw
    \/ ReturnCoordinates
    \/ StoreCoordinates
    \/ AssignCharge
    \/ ReturnMolecule

SpecMol == InitMol /\ [][NextMol]_vars

(***************************************************************************)
(* Properties of generate_atom_list                                        *)
(***************************************************************************)
Returned == pc = "done"

\* the configured minimum of a constrained element, 0 when it has none
MinimumOf(range) == IF range[1] = None THEN 0 ELSE CHOOSE mn \in range[1] : TRUE

RECURSIVE SumOfMinimums(_, _)
SumOfMinimums(ec, S) ==
    IF S = {}
    THEN 0
    ELSE LET e == CHOOSE x \in S : TRUE
         IN  MinimumOf(ec[e]) + SumOfMinimums(ec, S \ {e})

\* max_num_atoms is at least the sum of all configured per-element minimums
MaxCoversMinimums ==
    cfg.max_num_atoms
        >= SumOfMinimums(cfg.element_composition, DOMAIN cfg.element_composition)

TotalInRange ==
    /\ cfg.min_num_atoms <= Total(natoms)
    /\ Total(natoms) <= cfg.max_num_atoms

Unconstrained == cfg.forbidden_elements = {} /\ cfg.element_composition = << >>

\* C1 as stated: whenever generate_atom_list returns for a configuration
\* whose max_num_atoms is at least the sum of the configured minimums, the
\* total of the returned vector lies in [min_num_atoms, max_num_atoms].
C1_TotalInRangeAsStated == (Returned /\ MaxCoversMinimums) => TotalInRange

\* C1, amended: whenever generate_atom_list returns for a configuration with
\* min_num_atoms <= max_num_atoms and max_num_atoms at least the sum of the
\* configured minimums, the total of the returned vector lies in
\* [min_num_atoms, max_num_atoms]; with min_num_atoms = max_num_atoms = n, no
\* forbidden elements and no composition constraints it is exactly n.
C1_TotalInRange ==
    /\ (Returned /\ MaxCoversMinimums /\ cfg.min_num_atoms <= cfg.max_num_atoms)
          => TotalInRange
    /\ (Returned /\ Unconstrained /\ cfg.min_num_atoms = cfg.max_num_atoms)
          => Total(natoms) = cfg.min_num_atoms

\* C1 witnesses: a return with min = max = 3 and nothing configured after the
\* grow loop added atoms
C1_Witness ==
    /\ Returned
    /\ Unconstrained
    /\ cfg.min_num_atoms = 3
    /\ cfg.max_num_atoms = 3
    /\ "grow" \in acted
    /\ Total(natoms) = 3

\* C2: for a non-empty valid-element set and max_num_atoms at least the sum
\* of the configured minimums, whatever the constraint map is, the
\* shrink-to-maximum loop always makes progress: while the total exceeds
\* max_num_atoms some draw of the loop removes an atom.
C2_ShrinkMakesProgress ==
    (pc = "shrink" /\ valid_elems # {} /\ MaxCoversMinimums /\ AboveMaximum(natoms))
        => \E i \in 0 .. (MAX_ELEM - 1) : Removable(natoms[i], Limits(i)[1])

\* an explicit minimum greater than 0 for element e
ForcedByMinimum(e) == \E mn \in Limits(e)[1] : mn > 0

\* C3: after every step, every index listed in forbidden_elements has count
\* 0 unless the constraint map gives it an explicit minimum greater than 0.
C3_ForbiddenStayZero ==
    \A e \in cfg.forbidden_elements : natoms[e] = 0 \/ ForcedByMinimum(e)

\* the scan steps left until the next nonzero count of group s, from g on
RECURSIVE ScanDistance(_, _, _, _)
ScanDistance(f, s, g, left) ==
    IF left = 0 \/ f[s[g]] > 0
    THEN 0
    ELSE 1 + ScanDistance(f, s, IF g = Len(s) THEN 1 ELSE g + 1, left - 1)

\* a variant of a limiting loop: every scan step lowers it
ScanRank(f, s, g, n) == n * (Len(s) + 1) + ScanDistance(f, s, g, Len(s))

AfterMetalPasses == pc = "pblock" /\ k = 0

MetalSumsLimited ==
    /\ GroupSum(natoms, group_one_two) <= MetalLimit
    /\ GroupSum(natoms, other_metals) <= MetalLimit

C4_Step ==
    /\ AfterMetalPasses' => MetalSumsLimited'
    /\ (pc = "limit1" /\ pc' = "limit1")
          => ScanRank(natoms', group_one_two, gi', nmetals')
                < ScanRank(natoms, group_one_two, gi, nmetals)
    /\ (pc = "limit2" /\ pc' = "limit2")
          => ScanRank(natoms', other_metals, gi', n_othermetals')
                < ScanRank(natoms, other_metals, gi, n_othermetals)

\* C4: right after the second metal-abundance pass, before the p-block boost,
\* the counts over the alkali/alkaline-earth indices sum to at most 3 and the
\* counts over the 3d/4d/5d/lanthanide indices sum to at most 3; both
\* limiting loops terminate (every scan step lowers a non-negative variant).
C4_MetalSumsLimited == [][C4_Step]_vars

\* C4 witness: the passes are over and both loops removed atoms
C4_Witness ==
    /\ AfterMetalPasses
    /\ "limit1" \in acted
    /\ GroupSum(natoms, group_one_two) = MetalLimit
    /\ GroupSum(natoms, other_metals) > 0

\* floor(1.2 * min(nat, 10))
HydrogenCap(nat) == (12 * Min(nat, MaxMinNat)) \div 10

C5_Step ==
    (pc = "backfill")
        => IF natoms[0] = 0
           THEN /\ natoms'[0] >= 1
                /\ natoms'[0] <= 1 + HydrogenCap(Total(natoms))
                /\ \A e \in Elems \ {0} : natoms'[e] = natoms[e]
           ELSE natoms' = natoms

\* C5: if the hydrogen count is 0 when the backfill step is reached, then
\* right after it the hydrogen count is at least 1 and at most
\* 1 + floor(1.2 * min(nat, 10)), nat the total before the backfill; if the
\* hydrogen count is nonzero the backfill changes nothing.
C5_HydrogenBackfill == [][C5_Step]_vars

\* C5 witness: the backfill added more than one hydrogen to a vector that
\* had none
C5_Witness == pc = "clamp" /\ "backfill" \in acted /\ natoms[0] > 1

\* the pair (min, max) leaves room: min <= max when both are given
Satisfiable(range) == \A mn \in range[1] : \A mx \in range[2] : mn <= mx

WithinLimits(e) ==
    /\ \A mn \in Limits(e)[1] : natoms[e] >= mn
    /\ \A mx \in Limits(e)[2] : natoms[e] <= mx

\* C7: for every element with a configured (min, max), min <= max, the count
\* is within [min, max] from the clamp step on, through the grow loop and
\* the shrink loop, to the returned vector.
C7_CountsWithinLimits ==
    (pc \in {"grow", "shrink", "done"})
        => \A e \in DOMAIN cfg.element_composition :
              Satisfiable(Limits(e)) => WithinLimits(e)

\* C7 witness: element_composition = {0: (2, 2)}; the clamp and the grow
\* loop changed the vector and the returned hydrogen count is 2
C7_Witness ==
    /\ Returned
    /\ cfg.element_composition = (0 :> <<Some(2), Some(2)>>)
    /\ {"clamp", "grow"} \subseteq acted
    /\ natoms[0] = 2

(***************************************************************************)
(* Properties of generate_coordinates                                      *)
(***************************************************************************)
CoordinatesReturned == pc = "returned"

\* the squared distance of atoms i and j is at least the squared threshold
Apart(i, j) ==
    Dist2(xyz.pts[i], xyz.pts[j]) * Sq(cfg.dist_threshold[2])
        >= Sq(cfg.dist_threshold[1]) * Sq(xyz.den)

\* x holds, for every atom of atilist, a row some draw can give, scaled by scale
IsScaledDraw(x, atilist, scale) ==
    /\ Len(x.pts) = Len(atilist)
    /\ x.den = RawUnit * scale[2]
    /\ \A i \in 1 .. Len(atilist) :
          \E p \in Points(atilist[i]) :
              x.pts[i] = <<p[1] * scale[1], p[2] * scale[1], p[3] * scale[1]>>

AllPairsApart ==
    \A i \in 1 .. Len(xyz.pts) : \A j \in 1 .. Len(xyz.pts) : i # j => Apart(i, j)

C6_Step ==
    CoordinatesReturned'
        => /\ AllPairsApart'
           /\ IsScaledDraw(xyz', ati', eff_scaling')
           /\ xyz' = xyz /\ ati' = ati /\ eff_scaling' = eff_scaling
           /\ check_distances(xyz, cfg.dist_threshold)

\* C6: whenever generate_coordinates returns, every unordered pair of
\* distinct atoms is at least dist_threshold apart, however many rejection
\* rounds occurred, and the returned coordinates are the ones the last
\* check_distances call passed, a draw scaled by the scale then in force.
C6_AllPairsApart == [][C6_Step]_vars

\* C6 witness: three atoms returned after two rejection rounds
C6_Witness ==
    /\ CoordinatesReturned
    /\ Len(xyz.pts) = 3
    /\ nfail = 2
    /\ cfg.dist_threshold[1] > 0

\* the scales a / b and c / d are equal
SameScale(p, q) == p[1] * q[2] = q[1] * p[2]

\* C8: with dist_threshold = 0 the distance check passes on the first draw:
\* the loop body never runs, the coordinates are drawn exactly once and the
\* effective scale on return is the initial scale.
C8_ZeroThreshold ==
    (cfg.dist_threshold[1] = 0)
        => /\ nfail = 0
           /\ ndraw = (IF pc = "coords" THEN 0 ELSE 1)
           /\ pc = "check" => check_distances(xyz, cfg.dist_threshold)
           /\ SameScale(eff_scaling, cfg.init_coord_scaling)

\* C8 witness: a return with threshold 0 of three atoms, two at the same place
C8_Witness ==
    /\ CoordinatesReturned
    /\ cfg.dist_threshold[1] = 0
    /\ Len(xyz.pts) = 3
    /\ xyz.pts[1] = xyz.pts[2]

\* C9: the coordinate sequence and the element-index sequence have the same
\* length, the sum of the counts; the element-index sequence is
\* non-decreasing and holds each element index e exactly count[e] times,
\* after the first draw and after every redraw.
C9_AlignedSequences ==
    (pc \in {"check", "returned"})
        => /\ Len(xyz.pts) = Len(ati)
           /\ Len(ati) = Total(at)
           /\ \A i \in 1 .. (Len(ati) - 1) : ati[i] <= ati[i + 1]
           /\ \A e \in Elems : Cardinality({i \in 1 .. Len(ati) : ati[i] = e}) = at[e]

\* C9 witness: two hydrogens and a carbon returned after a rejection round
C9_Witness ==
    /\ CoordinatesReturned
    /\ nfail >= 1
    /\ at[0] = 2
    /\ at[5] = 1
    /\ ati = <<0, 0, 5>>

RECURSIVE Power(_, _)
Power(b, n) == IF n = 0 THEN 1 ELSE b * Power(b, n - 1)

\* eff_scaling = initial scale * inc_scaling_factor ^ nfail
ScaleIsPower ==
    eff_scaling[1] * cfg.init_coord_scaling[2]
            * Power(cfg.increase_scaling_factor[2], nfail)
        = cfg.init_coord_scaling[1]
            * Power(cfg.increase_scaling_factor[1], nfail) * eff_scaling[2]

\* the scale a / b is at most the scale c / d (positive denominators)
ScaleLeq(p, q) == p[1] * q[2] <= q[1] * p[2]

FactorAboveOne == cfg.increase_scaling_factor[1] > cfg.increase_scaling_factor[2]

C10_Step ==
    FactorAboveOne
        => /\ ScaleIsPower /\ ScaleIsPower'
           /\ ScaleLeq(eff_scaling, eff_scaling')
           /\ cfg' = cfg
           /\ IF pc = "check" /\ ~check_distances(xyz, cfg.dist_threshold)
              THEN /\ nfail' = nfail + 1
                   /\ ndraw' = ndraw + 1
                   /\ SameScale(<<eff_scaling'[1] * cfg.increase_scaling_factor[2],
                                  eff_scaling'[2] * cfg.increase_scaling_factor[1]>>,
                                eff_scaling)
                   /\ IsScaledDraw(xyz', ati', eff_scaling')
              ELSE /\ nfail' = nfail
                   /\ SameScale(eff_scaling', eff_scaling)

\* C10: within one call with inc_scaling_factor > 1 the effective scale
\* starts at the initial scale, changes only when a distance check fails, is
\* then multiplied by inc_scaling_factor once, never decreases, and is
\* initial * factor^k after k failed checks; every failed check is followed
\* by a redraw of all coordinates; the configured initial scale is unchanged.
C10_ScaleGrowth == [][C10_Step]_vars

\* C10 witness: two failed checks, the scale is the initial one times factor^2
C10_Witness ==
    /\ nfail = 2
    /\ ndraw = 3
    /\ SameScale(eff_scaling,
                 <<cfg.init_coord_scaling[1] * Sq(cfg.increase_scaling_factor[1]),
                   cfg.init_coord_scaling[2] * Sq(cfg.increase_scaling_factor[2])>>)
    /\ ~SameScale(eff_scaling, cfg.init_coord_scaling)

\* forbidden_elements removes every index of set_all_elem
AllForbidden == (0 .. (MAX_ELEM - 1)) \subseteq cfg.forbidden_elements

\* C12: when forbidden_elements removes every index in 0..85, whatever the
\* other options are, generate_atom_list changes no count and runs no step
\* after the addition rounds: at its first addition round the choice of an
\* element fails, the call ends in the error outcome and returns no vector.
C12_EmptyValidSetFails ==
    AllForbidden
        => /\ natoms = ZeroVec
           /\ acted = {}
           /\ pc \in {"start", "add", "error"}
           /\ pc = "add" => (k = 0 /\ ChoiceFails)

\* C12 witness: the error outcome for a configuration that forbids every
\* element and constrains hydrogen to exactly two atoms
C12_Witness ==
    /\ AllForbidden
    /\ DOMAIN cfg.element_composition = {0}
    /\ pc = "error"
    /\ natoms = ZeroVec

\* C13: when max_num_atoms is below the sum of the configured minimums,
\* generate_atom_list never enters its shrink loop (it has ended in an error
\* before) and so never reaches a state in which the shrink loop has to
\* remove an atom and no draw can remove one.
C13_MinimumsAboveMaxDetected ==
    ~MaxCoversMinimums
        => /\ pc # "shrink"
           /\ ~(/\ pc = "shrink"
                /\ AboveMaximum(natoms)
                /\ \A i \in 0 .. (MAX_ELEM - 1) :
                      ~Removable(natoms[i], Limits(i)[1]))

\* the indices of the vector that no sampling step draws
AboveMaxElem == MAX_ELEM .. (NumSlots - 1)

\* C16: in every state of generate_atom_list, hence in every returned vector,
\* every index in 86..101 has count 0 unless the constraint map names it with
\* a minimum greater than 0 (its count is then that minimum): the addition
\* rounds, the p-block boost, the hydrogen backfill and the grow and shrink
\* loops never write to an index above 85.
C16_UpperIndicesUntouched ==
    \A e \in AboveMaxElem :
        \/ natoms[e] = 0
        \/ ForcedByMinimum(e) /\ natoms[e] = MinimumOf(Limits(e))

\* C16 witness: a returned vector for a constraint map that names index 90
\* with minimum 1 and index 95 with a maximum only
C16_Witness ==
    /\ Returned
    /\ {90, 95} \subseteq DOMAIN cfg.element_composition
    /\ natoms[90] = 1
    /\ natoms[95] = 0
    /\ "shrink" \in acted

\* the stated condition for removing an atom of an element with count n
RemovableAsStated(n, minlimit) ==
    n > 0 /\ (minlimit = None \/ \E mn \in minlimit : n > mn)

\* C17: in each iteration of the shrink loop, for whichever index i of 0..85
\* is drawn, the count of i goes down by exactly 1 if it is nonzero and i has
\* no configured minimum or its count exceeds that minimum, and the vector is
\* unchanged otherwise; no other index changes.
C17_ShrinkIteration ==
    (pc = "shrink" /\ AboveMaximum(natoms))
        => \A i \in 0 .. (MAX_ELEM - 1) :
              Removable(natoms[i], Limits(i)[1])
                  <=> RemovableAsStated(natoms[i], Limits(i)[1])

C18_Step ==
    /\ (pc = "grow" /\ pc' = "grow" /\ natoms' # natoms)
          => \E a \in valid_elems :
                /\ ~AtMaxLimit(natoms[a], Limits(a)[2])
                /\ natoms' = [natoms EXCEPT ![a] = @ + 1]
    /\ (pc = "grow" /\ pc' = "shrink" /\ "grow" \in acted)
          => /\ Total(natoms') = cfg.min_num_atoms
             /\ natoms' = natoms
    /\ cfg.min_num_atoms <= cfg.max_num_atoms
          => ~({"grow", "shrink"} \subseteq acted')

\* C18: every iteration of the grow loop that changes the vector adds exactly
\* 1 to one valid element below its configured maximum; when the grow loop
\* has added atoms and exits, the total is exactly min_num_atoms; and when
\* min_num_atoms <= max_num_atoms the grow loop and the shrink loop never
\* both change the vector in one call.
C18_GrowStopsAtMinimum == [][C18_Step]_vars

\* C18 witness: the grow loop has added atoms and has exited with the total
\* at min_num_atoms = 2 < max_num_atoms
C18_Witness ==
    /\ pc = "shrink"
    /\ "grow" \in acted
    /\ cfg.min_num_atoms = 2
    /\ cfg.max_num_atoms = 3
    /\ Total(natoms) = 2

\* C20: every count is non-negative in every reachable state, and inside
\* each metal-limiting loop the tracked sum equals the sum of the counts of
\* the loop's group.
C20_CountsNonNegative ==
    /\ \A e \in Elems : natoms[e] >= 0
    /\ pc = "limit1" => nmetals = GroupSum(natoms, group_one_two)
    /\ pc = "limit2" => n_othermetals = GroupSum(natoms, other_metals)

\* C20 witness: the second limiting loop has removed an atom and its tracked
\* sum is still above the limit
C20_Witness ==
    /\ pc = "limit2"
    /\ "limit2" \in acted
    /\ n_othermetals > MetalLimit
    /\ n_othermetals = GroupSum(natoms, other_metals)

\* some valid element has no configured maximum
HasUnboundedValid == \E a \in valid_elems : Limits(a)[2] = None

\* the grow loop has to add an atom and every valid element is at or above
\* its configured maximum
GrowStuck ==
    /\ pc = "grow"
    /\ BelowMinimum(natoms)
    /\ valid_elems # {}
    /\ \A a \in valid_elems : AtMaxLimit(natoms[a], Limits(a)[2])

\* C19: under fair draws the grow loop is eventually left whenever some
\* valid element has no configured maximum; and once the total is below
\* min_num_atoms with every valid element at or above its configured
\* maximum, no step changes the vector or leaves the loop.
C19_GrowExits ==
    /\ (pc = "grow" /\ HasUnboundedValid) ~> (pc # "grow")
    /\ [][GrowStuck => (GrowStuck' /\ natoms' = natoms)]_vars

\* C19 witness: the grow loop was left after adding atoms, for a constraint
\* map that caps carbon at 3 and leaves other valid elements without maximum
C19_Witness ==
    /\ pc = "shrink"
    /\ "grow" \in acted
    /\ HasUnboundedValid
    /\ 5 \in DOMAIN cfg.element_composition
    /\ 5 \in valid_elems
    /\ Total(natoms) = cfg.min_num_atoms

PositiveGeometry ==
    /\ cfg.init_coord_scaling[1] > 0
    /\ cfg.dist_threshold[1] > 0
    /\ FactorAboveOne

\* C15: for every composition vector, positive initial scale, positive
\* dist_threshold and inc_scaling_factor > 1, under fair draws the rejection
\* loop of generate_coordinates is eventually left and the coordinates are
\* returned.
C15_RejectionLoopExits ==
    (pc = "check" /\ PositiveGeometry) ~> CoordinatesReturned

\* C15 witness: coordinates of two atoms returned for a positive threshold
\* after the check failed MaxRejects times and the scale stopped growing
C15_Witness ==
    /\ CoordinatesReturned
    /\ PositiveGeometry
    /\ Len(ati) = 2
    /\ nfail = MaxRejects
    /\ ~SameScale(eff_scaling, cfg.init_coord_scaling)

\* the stages of generate_random_molecule, in the order of its code
StageOf(p) ==
    IF p \in {"coords", "check", "returned"} THEN 1
    ELSE IF p = "charge" THEN 2
    ELSE IF p = "charged" THEN 3
    ELSE IF p = "molecule" THEN 4
    ELSE IF p = "error" THEN 5
    ELSE 0

\* every attribute of the molecule m is set and its sizes agree
ConsistentMolecule(m) ==
    \E n \in m.num_atoms, a \in m.atlist, i \in m.ati, x \in m.xyz :
        /\ m.charge # None
        /\ n = Total(a)
        /\ n = Len(i)
        /\ n = Len(x.pts)

MoleculeReturned == pc = "molecule"

C14_Step ==
    /\ (StageOf(pc) = 0 /\ StageOf(pc') = 1)
          => pc = "done" /\ pc' = "coords" /\ ~AboveMaximum(natoms)
    /\ (StageOf(pc) = 1 /\ StageOf(pc') = 2)
          => pc = "returned" /\ check_distances(xyz, cfg.dist_threshold)
    /\ StageOf(pc') # 5
          => StageOf(pc') \in {StageOf(pc), StageOf(pc) + 1}
    /\ MoleculeReturned'
          => /\ ConsistentMolecule(mol')
             /\ mol'.atlist = Some(natoms')
             /\ mol'.xyz = Some(xyz')
             /\ mol'.ati = Some(ati')
    /\ pc = "error" => pc' = "error"

\* C14: generate_random_molecule starts geometry sampling only after
\* composition sampling has returned, assigns the charge only after geometry
\* sampling has returned, and returns the molecule only after the charge is
\* assigned; no stage is skipped, and after a failure nothing is returned.
\* Every returned molecule has num_atoms = sum(atlist) = length of ati =
\* number of rows of xyz.
C14_StagesInOrder == [][C14_Step]_vars

\* C14 witness: a molecule of two atoms returned after the shrink loop removed
\* an atom and a distance check failed
C14_Witness ==
    /\ MoleculeReturned
    /\ mol.num_atoms = Some(2)
    /\ "shrink" \in acted
    /\ nfail = 1

====
